---- MODULE Spec2Model ----
(***************************************************************************)
(* Model of src/src/index.ts (class SSHMCPServer): the SSH config loader   *)
(* (loadSSHConfig / parseSSHConfig / handleInclude) and the tool-call      *)
(* dispatcher with its child processes and timers.                         *)
(*                                                                         *)
(* Strings are modelled by what the code inspects of them:                 *)
(*  - a path is a sequence of atoms; the atoms "/", "~", "*", "." and ".." *)
(*    are the characters the code and path.join look at, every other atom  *)
(*    is a run of ordinary characters (a file or directory name);          *)
(*  - a config line is the record of its first word (key) and of the rest  *)
(*    of the line (value): the sequence of its words for a key that holds  *)
(*    names (`valueParts.join(' ')` is that sequence), the sequence of its *)
(*    path atoms for Include and IdentityFile.                             *)
(***************************************************************************)
EXTENDS Integers, Sequences, FiniteSets, TLC

VARIABLES
  phase,        \* "init" | "loading" | "serving": position of run()
  configFile,   \* the primary document ~/.ssh/config: [exists, lines]
  sshHosts,     \* this.sshHosts: Map<string, SSHHost>
  stack,        \* the pending parseSSHConfig / handleInclude activations
  io,           \* history: the latest readFile / glob request and its outcome
  visits,       \* history: how often each file was handed to parseSSHConfig
  declCount,    \* history: Host lines read so far (reading order)
  commitCount,  \* history: this.sshHosts.set calls so far
  lastDecl,     \* history: alias -> reading-order number of its latest Host line
  origin,       \* history: alias -> reading-order number of the block stored
  calls         \* the tool calls received so far, in order of arrival

loadVars == <<phase, configFile, sshHosts, stack>>

histVars == <<io, visits, declCount, commitCount, lastDecl, origin>>

vars == <<loadVars, histVars, calls>>

(* ------------------------------ bounds --------------------------------- *)

\* longest primary configuration document enumerated
MaxLines == 3
\* deepest nesting of parse / glob frames explored (include cycles recurse
\* without limit in the code)
MaxDepth == 4
\* most tool calls one run receives
MaxCalls == 2
\* longest command / script text enumerated, in bytes
MaxPayload == 4
\* most chunks of output the children of one run write
MaxChunks == 1

(* --------------------------- small helpers ----------------------------- *)

EmptyMap == [x \in {} |-> 0]

Last(s) == s[Len(s)]

Front(s) == SubSeq(s, 1, Len(s) - 1)

RECURSIVE IndexOfFrom(_, _, _)
\* String.prototype.indexOf: first position >= i holding atom c, 0 if none
IndexOfFrom(s, c, i) ==
  IF i > Len(s) THEN 0
  ELSE IF s[i] = c THEN i
  ELSE IndexOfFrom(s, c, i + 1)

Includes(s, c) == IndexOfFrom(s, c, 1) # 0

StartsWith(s, c) == Len(s) > 0 /\ s[1] = c

\* String.prototype.replace(pattern: string, by): replaces the FIRST
\* occurrence only, wherever it is
ReplaceFirst(s, c, by) ==
  LET k == IndexOfFrom(s, c, 1)
  IN IF k = 0 THEN s
     ELSE SubSeq(s, 1, k - 1) \o by \o SubSeq(s, k + 1, Len(s))

(* ------------------------------- paths --------------------------------- *)

\* os.homedir()
homedir == <<"/", "h">>

RECURSIVE SplitSegs(_, _, _)
\* p.split('/'): the segments between slashes, empty ones included
SplitSegs(p, i, cur) ==
  IF i > Len(p) THEN <<cur>>
  ELSE IF p[i] = "/" THEN <<cur>> \o SplitSegs(p, i + 1, <<>>)
  ELSE SplitSegs(p, i + 1, Append(cur, p[i]))

RECURSIVE NormSegs(_, _, _)
\* path.normalize on the segments of an absolute path: "" and "." vanish,
\* ".." removes the previous segment and is dropped at the root
NormSegs(segs, i, acc) ==
  IF i > Len(segs) THEN acc
  ELSE IF segs[i] = <<>> \/ segs[i] = <<".">> THEN NormSegs(segs, i + 1, acc)
  ELSE IF segs[i] = <<"..">>
       THEN NormSegs(segs, i + 1, IF acc = <<>> THEN acc ELSE Front(acc))
  ELSE NormSegs(segs, i + 1, Append(acc, segs[i]))

RECURSIVE Unsplit(_, _)
Unsplit(segs, i) ==
  IF i > Len(segs) THEN <<>>
  ELSE <<"/">> \o segs[i] \o Unsplit(segs, i + 1)

\* path.normalize for an absolute path (a trailing slash is preserved)
Normalize(p) ==
  LET segs == NormSegs(SplitSegs(p, 1, <<>>), 1, <<>>)
  IN IF segs = <<>> THEN <<"/">>
     ELSE Unsplit(segs, 1) \o (IF Last(p) = "/" THEN <<"/">> ELSE <<>>)

\* path.join(a, b) with a absolute and b non-empty
join(a, b) == Normalize(a \o <<"/">> \o b)

(* ---------------------------- file system ------------------------------ *)

\* join(homedir(), '.ssh', 'config')
sshConfigPath == join(join(homedir, <<".ssh">>), <<"config">>)

P(segs) == Unsplit(segs, 1)

Line(key, value) == [key |-> key, value |-> value]

HostL(alias) == Line("Host", alias)

Inc(path) == Line("Include", path)

\* The files next to the primary configuration.  Every enumerated tree has
\* these; the primary document varies.
AuxFiles ==
  (P(<< <<"h">>, <<".ssh">>, <<"a">> >>) :>
      << HostL(<<"a">>), Line("HostName", <<"v2">>),
         Line("IdentityFile", <<"~", "/", "k">>) >>)
  @@ (P(<< <<"h">>, <<".ssh">>, <<"c">> >>) :>
      << HostL(<<"c">>), Inc(<<"config">>) >>)
  @@ (P(<< <<"h">>, <<"d">>, <<"b">> >>) :>
      << HostL(<<"b">>), Line("user", <<"u1">>), Inc(<<"a">>) >>)
  @@ (P(<< <<"h">>, <<"d">>, <<"a">> >>) :>
      << Line("#", <<>>), HostL(<<"a">>), Line("Port", <<"2222">>) >>)
  @@ (P(<< <<"h">>, <<"d">>, <<"e">>, <<"x">> >>) :>
      << HostL(<<"x">>) >>)
  @@ (P(<< <<"h">>, <<"a">> >>) :>
      << HostL(<<"t">>), Line("ForwardAgent", <<"yes">>) >>)
  @@ (P(<< <<"h">>, <<".ssh">>, <<"h">>, <<"a">> >>) :>
      << Line("HOST", <<"w">>) >>)

\* Include operands of the primary document
IncludePaths ==
  { <<"a">>,                                \* relative, same directory
    <<"c">>,                                \* relative, includes the primary back
    <<"m">>,                                \* missing file
    <<"/", "h", "/", "d", "/", "b">>,       \* absolute, other directory
    <<"~", "/", "a">>,                      \* home-relative
    <<"..", "/", "d", "/", "*">>,           \* glob: two files and a directory
    <<"m", "*">> }                          \* glob without a match

\* lines of the documents that exercise Include
IncludeLines == { HostL(<<"a">>) } \cup { Inc(p) : p \in IncludePaths }

\* lines of the documents that exercise Host blocks and their fields
FieldLines ==
  { HostL(<<"a">>), Line("host", <<"a", "b">>), Line("Host", <<>>),
    Line("HostName", <<"v1">>), Line("User", <<"u1">>),
    Line("port", <<"abc">>), Line("Port", <<"0">>),
    Line("ProxyJump", <<"b">>) }

MainDocs ==
  UNION { [1..n -> IncludeLines] \cup [1..n -> FieldLines] : n \in 0..MaxLines }

\* the file contents of the tree: the primary document, if any, and the rest
FS ==
  IF configFile.exists
  THEN (sshConfigPath :> configFile.lines) @@ AuxFiles
  ELSE AuxFiles

\* fs.readFile: the operating system resolves the path; a path with a
\* trailing slash names no regular file
CanRead(p) == Normalize(p) \in DOMAIN FS

ReadFile(p) == FS[Normalize(p)]

\* the segments of an absolute path
Segs(p) == NormSegs(SplitSegs(p, 1, <<>>), 1, <<>>)

\* every file and directory of the tree, as segment sequences
Entries ==
  UNION { { SubSeq(Segs(f), 1, n) : n \in 1..Len(Segs(f)) } : f \in DOMAIN FS }

\* names the `*` of a glob does not match in first position (dot files)
DotNames == { ".ssh" }

RECURSIVE MatchSeg(_, _)
\* one path segment against one pattern segment; `*` matches any run of
\* atoms of the name
MatchSeg(pat, name) ==
  IF pat = <<>> THEN name = <<>>
  ELSE IF pat[1] = "*"
       THEN \E k \in 0..Len(name) : MatchSeg(Tail(pat), SubSeq(name, k + 1, Len(name)))
  ELSE name # <<>> /\ name[1] = pat[1] /\ MatchSeg(Tail(pat), Tail(name))

MatchEntry(pat, e) ==
  /\ Len(pat) = Len(e)
  /\ \A k \in 1..Len(pat) :
       /\ MatchSeg(pat[k], e[k])
       /\ (StartsWith(pat[k], "*") => e[k][1] \notin DotNames)

\* glob(pattern): the existing paths, files and directories, that match
glob(pattern) == { P(e) : e \in { x \in Entries : MatchEntry(Segs(pattern), x) } }

(* ------------------------------ parser --------------------------------- *)

\* String.prototype.toLowerCase on the keys that occur
Lower(k) ==
  CASE k \in {"Host", "HOST"} -> "host"
    [] k = "Include" -> "include"
    [] k = "HostName" -> "hostname"
    [] k = "User" -> "user"
    [] k = "Port" -> "port"
    [] k = "IdentityFile" -> "identityfile"
    [] k = "ProxyJump" -> "proxyjump"
    [] k = "ForwardAgent" -> "forwardagent"
    [] OTHER -> k

\* the value parseInt cannot read
NaN == -1

\* parseInt(value): the leading digits of the first word
parseInt(value) ==
  CASE value[1] = "22" -> 22
    [] value[1] = "2222" -> 2222
    [] value[1] = "0" -> 0
    [] OTHER -> NaN

\* `!line || line.startsWith('#')`
IsSkipped(line) == line.key = "" \/ line.key = "#"

\* `line.toLowerCase().startsWith('include ')`: the keyword, a blank and,
\* the line being trimmed, something after it
IsInclude(line) == Lower(line.key) = "include" /\ line.value # <<>>

IsHost(line) == Lower(line.key) = "host"

\* the switch of parseSSHConfig: the record with the property of the line set
SetProperty(currentHost, line) ==
  LET lowerKey == Lower(line.key)
  IN CASE lowerKey = "hostname" -> ("hostname" :> line.value) @@ currentHost
       [] lowerKey = "user" -> ("user" :> line.value) @@ currentHost
       [] lowerKey = "port" -> ("port" :> parseInt(line.value)) @@ currentHost
       [] lowerKey = "identityfile" ->
            ("identityFile" :> ReplaceFirst(line.value, "~", homedir)) @@ currentHost
       [] lowerKey = "proxyjump" -> ("proxyJump" :> line.value) @@ currentHost
       [] OTHER -> (lowerKey :> line.value) @@ currentHost

\* handleInclude, the path handed to glob / readFile
FullPath(includePath, basePath) ==
  LET joined == IF ~StartsWith(includePath, "/")
                THEN join(join(basePath, <<"..">>), includePath)
                ELSE includePath
  IN ReplaceFirst(joined, "~", homedir)

\* variant: the nested call is given the basePath of its caller
IncludedBaseOfCaller(file, basePath) == basePath

\* the basePath argument of the nested parseSSHConfig call: the file read
IncludedBase(file, basePath) == file

\* an activation of parseSSHConfig; `file` (history) is the file whose
\* content it was given, `id` (history) the reading-order number of the
\* block in progress and `start` (history) the line of its Host line
ParseFrame(basePath, file) ==
  [kind |-> "parse", basePath |-> basePath, i |-> 1,
   hasCur |-> FALSE, currentHost |-> ("host" :> <<>>),
   files |-> {}, pattern |-> <<>>, file |-> Normalize(file), id |-> 0,
   start |-> 0]

\* the `for (const file of files)` loop of handleInclude over what is left
\* of the glob result; `file` (history) is the including file
GlobFrame(files, pattern, basePath, file) ==
  [kind |-> "glob", basePath |-> basePath, i |-> 1,
   hasCur |-> FALSE, currentHost |-> ("host" :> <<>>),
   files |-> files, pattern |-> pattern, file |-> file, id |-> 0,
   start |-> 0]

Top == stack[Len(stack)]

TopLines == ReadFile(Top.file)

TopLine == TopLines[Top.i]

Parsing ==
  /\ phase = "loading"
  /\ stack # <<>>
  /\ Top.kind = "parse"
  /\ Top.i <= Len(TopLines)

Resumed == [stack EXCEPT ![Len(stack)].i = @ + 1]

\* variant: the error is not caught in handleInclude and unwinds every
\* activation up to the catch of loadSSHConfig
IncludeFailureUnwinds(stk) == <<>>

\* handleInclude after a failed readFile / glob: the error is caught and
\* logged, the caller goes on with its next line
AfterIncludeFailure(stk) == stk

Bump(f, k) == (k :> (IF k \in DOMAIN f THEN f[k] + 1 ELSE 1)) @@ f

\* `by` names the code that made the request, `from` the file whose
\* directive led to it, `inc` the operand of that directive
NoIO ==
  [op |-> "none", arg |-> <<>>, ok |-> TRUE, by |-> "", from |-> <<>>, inc |-> <<>>]

(* ------------------------------- loader -------------------------------- *)

\* loadSSHConfig up to the first parseSSHConfig call
LoadSSHConfig ==
  /\ phase = "init"
  /\ IF configFile.exists
     THEN /\ phase' = "loading"
          /\ stack' = << ParseFrame(sshConfigPath, sshConfigPath) >>
          /\ visits' = Bump(visits, sshConfigPath)
          /\ io' = [op |-> "readFile", arg |-> sshConfigPath, ok |-> TRUE,
                    by |-> "loadSSHConfig", from |-> <<>>, inc |-> <<>>]
     ELSE /\ phase' = "serving"
          /\ UNCHANGED <<stack, visits, io>>
  /\ UNCHANGED <<configFile, sshHosts, declCount, commitCount, lastDecl, origin, calls>>

\* a blank line or a comment
ParseSkipLine ==
  /\ Parsing
  /\ IsSkipped(TopLine)
  /\ stack' = Resumed
  /\ UNCHANGED <<phase, configFile, sshHosts, histVars, calls>>

\* variant: the fields of the block are laid over the record already stored
CommitMerged(frame) ==
  /\ sshHosts' =
       LET alias == frame.currentHost["host"]
       IN (alias :> (IF alias \in DOMAIN sshHosts
                     THEN frame.currentHost @@ sshHosts[alias]
                     ELSE frame.currentHost)) @@ sshHosts
  /\ origin' = (frame.currentHost["host"] :> frame.id) @@ origin
  /\ commitCount' = commitCount + 1

\* this.sshHosts.set(currentHost.host, currentHost)
Commit(frame) ==
  /\ sshHosts' = (frame.currentHost["host"] :> frame.currentHost) @@ sshHosts
  /\ origin' = (frame.currentHost["host"] :> frame.id) @@ origin
  /\ commitCount' = commitCount + 1

\* a Host line: save the block in progress, start a new one
ParseHostLine ==
  /\ Parsing
  /\ ~IsSkipped(TopLine) /\ ~IsInclude(TopLine) /\ IsHost(TopLine)
  /\ IF Top.hasCur
     THEN Commit(Top)
     ELSE UNCHANGED <<sshHosts, origin, commitCount>>
  /\ declCount' = declCount + 1
  /\ lastDecl' = (TopLine.value :> declCount') @@ lastDecl
  /\ stack' = [stack EXCEPT ![Len(stack)] =
                 [@ EXCEPT !.i = @ + 1, !.hasCur = TRUE,
                           !.currentHost = ("host" :> TopLine.value),
                           !.id = declCount', !.start = Top.i]]
  /\ UNCHANGED <<phase, configFile, io, visits, calls>>

\* any other line: a property of the block in progress, or nothing
ParseProperty ==
  /\ Parsing
  /\ ~IsSkipped(TopLine) /\ ~IsInclude(TopLine) /\ ~IsHost(TopLine)
  /\ stack' = IF Top.hasCur /\ TopLine.key # "" /\ TopLine.value # <<>>
              THEN [stack EXCEPT ![Len(stack)] =
                      [@ EXCEPT !.i = @ + 1,
                                !.currentHost = SetProperty(@, TopLine)]]
              ELSE Resumed
  /\ UNCHANGED <<phase, configFile, sshHosts, histVars, calls>>

\* an Include line: handleInclude up to the nested parseSSHConfig call, or
\* to its end when nothing is parsed
ParseInclude ==
  /\ Parsing
  /\ ~IsSkipped(TopLine) /\ IsInclude(TopLine)
  /\ LET fullPath == FullPath(TopLine.value, Top.basePath)
         request(op, ok) == [op |-> op, arg |-> fullPath, ok |-> ok,
                             by |-> "handleInclude",
                             from |-> Top.file, inc |-> TopLine.value]
     IN IF Includes(fullPath, "*")
        THEN \E expanded \in BOOLEAN :
               /\ io' = request("glob", expanded)
               /\ IF expanded
                  THEN /\ Len(stack) < MaxDepth
                       /\ stack' = Append(Resumed,
                            GlobFrame(glob(fullPath), TopLine.value,
                                      Top.basePath, Top.file))
                  ELSE stack' = AfterIncludeFailure(Resumed)
               /\ UNCHANGED visits
        ELSE /\ io' = request("readFile", CanRead(fullPath))
             /\ IF CanRead(fullPath)
                THEN /\ Len(stack) < MaxDepth
                     /\ stack' = Append(Resumed,
                          ParseFrame(IncludedBase(fullPath, Top.basePath), fullPath))
                     /\ visits' = Bump(visits, Normalize(fullPath))
                ELSE /\ stack' = AfterIncludeFailure(Resumed)
                     /\ UNCHANGED visits
  /\ phase' = IF stack' = <<>> THEN "serving" ELSE "loading"
  /\ UNCHANGED <<configFile, sshHosts, declCount, commitCount, lastDecl, origin, calls>>

\* the next file of a glob result, in whatever order glob returned them
GlobNext ==
  /\ phase = "loading"
  /\ stack # <<>>
  /\ Top.kind = "glob"
  /\ \E file \in Top.files :
       LET rest == [stack EXCEPT ![Len(stack)].files = @ \ {file}]
       IN /\ io' = [op |-> "readFile", arg |-> file, ok |-> CanRead(file),
                    by |-> "globLoop", from |-> Top.file, inc |-> Top.pattern]
          /\ IF CanRead(file)
             THEN /\ Len(stack) < MaxDepth
                  /\ stack' = Append(rest,
                       ParseFrame(IncludedBase(file, Top.basePath), file))
                  /\ visits' = Bump(visits, Normalize(file))
             ELSE /\ stack' = AfterIncludeFailure(rest)
                  /\ UNCHANGED visits
  /\ phase' = IF stack' = <<>> THEN "serving" ELSE "loading"
  /\ UNCHANGED <<configFile, sshHosts, declCount, commitCount, lastDecl, origin, calls>>

\* the glob loop is through: handleInclude returns
GlobReturn ==
  /\ phase = "loading"
  /\ stack # <<>>
  /\ Top.kind = "glob"
  /\ Top.files = {}
  /\ stack' = Front(stack)
  /\ UNCHANGED <<phase, configFile, sshHosts, histVars, calls>>

\* end of the document: save the last block, return to the caller; the
\* return of the outermost call ends loadSSHConfig
ParseReturn ==
  /\ phase = "loading"
  /\ stack # <<>>
  /\ Top.kind = "parse"
  /\ Top.i > Len(TopLines)
  /\ IF Top.hasCur
     THEN Commit(Top)
     ELSE UNCHANGED <<sshHosts, origin, commitCount>>
  /\ stack' = Front(stack)
  /\ phase' = IF stack' = <<>> THEN "serving" ELSE "loading"
  /\ UNCHANGED <<configFile, io, visits, declCount, lastDecl, calls>>

(* ------------------------------ payloads ------------------------------- *)

\* A command or script text is the sequence of its character codes; the
\* texts enumerated are ASCII, so Buffer.from(text) is the same sequence.

Newline == 10

\* the quote of the template `echo '...' | base64 -d | ...`
Quote == 39

\* the `=` that fills the last group of a base64 text
PadChar == 61

\* line feed, `$`, `'`, backtick, `a`
PayloadBytes == {10, 36, 39, 96, 97}

Payloads == UNION { [1..n -> PayloadBytes] : n \in 0..MaxPayload }

\* the text "undefined" a template string or spawn makes of a missing argument
UndefinedText == <<117, 110, 100, 101, 102, 105, 110, 101, 100>>

\* the base64 alphabet: A-Z, a-z, 0-9, `+`, `/`
B64Char(i) ==
  IF i < 26 THEN 65 + i
  ELSE IF i < 52 THEN 71 + i
  ELSE IF i < 62 THEN i - 4
  ELSE IF i = 62 THEN 43 ELSE 47

RECURSIVE ToBase64(_)
\* Buffer.from(text).toString('base64'): three bytes make four characters
\* of six bits each, the last group is filled with `=`
ToBase64(bytes) ==
  IF bytes = <<>> THEN <<>>
  ELSE LET b1 == bytes[1]
           b2 == bytes[2]
           b3 == bytes[3]
       IN IF Len(bytes) = 1
          THEN << B64Char(b1 \div 4), B64Char((b1 % 4) * 16), PadChar, PadChar >>
          ELSE IF Len(bytes) = 2
          THEN << B64Char(b1 \div 4), B64Char((b1 % 4) * 16 + b2 \div 16),
                  B64Char((b2 % 16) * 4), PadChar >>
          ELSE << B64Char(b1 \div 4), B64Char((b1 % 4) * 16 + b2 \div 16),
                  B64Char((b2 % 16) * 4 + b3 \div 64), B64Char(b3 % 64) >>
               \o ToBase64(SubSeq(bytes, 4, Len(bytes)))

\* variant: the text is put between the quotes as it is
NotEncoded(text) == text

\* the text put between the quotes of the pipeline
Encoded(text) == ToBase64(text)

\* the six bits a character of the alphabet stands for, -1 for another one
B64Index(c) ==
  IF c \in 65..90 THEN c - 65
  ELSE IF c \in 97..122 THEN c - 71
  ELSE IF c \in 48..57 THEN c + 4
  ELSE IF c = 43 THEN 62
  ELSE IF c = 47 THEN 63
  ELSE -1

RECURSIVE FromBase64(_)
\* `base64 -d` on the remote side: four characters make three bytes; the
\* output ends at a character outside the alphabet or at a short group
FromBase64(chars) ==
  IF Len(chars) < 4 THEN <<>>
  ELSE LET s1 == B64Index(chars[1])
           s2 == B64Index(chars[2])
           s3 == B64Index(chars[3])
           s4 == B64Index(chars[4])
       IN IF s1 < 0 \/ s2 < 0 THEN <<>>
          ELSE IF chars[3] = PadChar \/ s3 < 0
          THEN << s1 * 4 + s2 \div 16 >>
          ELSE IF chars[4] = PadChar \/ s4 < 0
          THEN << s1 * 4 + s2 \div 16, (s2 % 16) * 16 + s3 \div 4 >>
          ELSE << s1 * 4 + s2 \div 16, (s2 % 16) * 16 + s3 \div 4,
                  (s3 % 4) * 64 + s4 >>
               \o FromBase64(SubSeq(chars, 5, Len(chars)))

\* the word the remote shell reads between the quotes: it ends at the first
\* quote of the text
QuotedWord(text) ==
  LET k == IndexOfFrom(text, Quote, 1)
  IN IF k = 0 THEN text ELSE SubSeq(text, 1, k - 1)

RECURSIVE SplitLines(_, _, _)
\* text.split('\n')
SplitLines(text, i, cur) ==
  IF i > Len(text) THEN <<cur>>
  ELSE IF text[i] = Newline THEN <<cur>> \o SplitLines(text, i + 1, <<>>)
  ELSE SplitLines(text, i + 1, Append(cur, text[i]))

RECURSIVE JoinLines(_, _)
\* lines.join('\n')
JoinLines(lines, i) ==
  IF i > Len(lines) THEN <<>>
  ELSE IF i = Len(lines) THEN lines[i]
  ELSE lines[i] \o <<Newline>> \o JoinLines(lines, i + 1)

\* the `script` field of a script response: the first three lines, and a
\* line `...` when there are more
Preview(script) ==
  LET lines == SplitLines(script, 1, <<>>)
  IN JoinLines(SubSeq(lines, 1, IF Len(lines) < 3 THEN Len(lines) ELSE 3), 1)
     \o (IF Len(lines) > 3 THEN <<Newline, 46, 46, 46>> ELSE <<>>)

\* the command handed to ssh: `arg` between the quotes of the pipeline
\* `echo '...' | base64 -d | <interpreter>` if `wrapped`, `arg` alone if not
Command(wrapped, arg) == [wrapped |-> wrapped, arg |-> arg]

(* ------------------------------ requests ------------------------------- *)

\* a tools/call request: `hasArgs` tells whether params.arguments is there,
\* `hasHost` / `host` are args.host, `present` holds the other supplied
\* argument names, `timeout` is args.timeout with 0 for an absent one,
\* `payload` is args.command / args.script
Request(name, hasArgs, hasHost, host, present, useBase64) ==
  [name |-> name, hasArgs |-> hasArgs, hasHost |-> hasHost, host |-> host,
   present |-> present, useBase64 |-> useBase64, timeout |-> 0,
   payload |-> IF {"command", "script"} \cap present = {}
               THEN UndefinedText ELSE <<97>>]

WithHost(name, present, useBase64) ==
  { Request(name, TRUE, TRUE, <<"a">>, present, useBase64),
    Request(name, TRUE, TRUE, <<"z">>, present, useBase64),
    Request(name, TRUE, FALSE, <<>>, present, useBase64) }

\* the requests a client sends (PayloadRequests has the encoded commands)
Requests ==
  WithHost("ssh_execute_command", {"command"}, FALSE)
  \cup { Request("ssh_execute_command", TRUE, TRUE, <<"a">>, {}, FALSE),
         Request("ssh_execute_command", TRUE, TRUE, <<"a">>, {}, TRUE) }
  \cup WithHost("ssh_execute_script", {"script"}, FALSE)
  \cup { Request("ssh_execute_script", TRUE, TRUE, <<"a">>, {}, FALSE) }
  \cup WithHost("ssh_get_host_info", {}, FALSE)
  \cup { Request("ssh_get_host_info", TRUE, TRUE, <<"b">>, {}, FALSE) }
  \cup { Request("ssh_list_hosts", TRUE, FALSE, <<>>, {}, FALSE) }
  \cup WithHost("ssh_upload_file", {"localPath", "remotePath"}, FALSE)
  \cup { Request("ssh_upload_file", TRUE, TRUE, <<"a">>, {"remotePath"}, FALSE) }
  \cup WithHost("ssh_download_file", {"localPath", "remotePath"}, FALSE)
  \cup { Request("ssh_download_file", TRUE, TRUE, <<"a">>, {"localPath"}, FALSE) }
  \cup { Request("ssh_reboot", TRUE, TRUE, <<"a">>, {}, FALSE) }
  \cup { Request(n, FALSE, FALSE, <<>>, {}, FALSE) :
           n \in {"ssh_reboot", "ssh_list_hosts", "ssh_execute_command"} }

(* ------------------------------ outcomes ------------------------------- *)

\* the promise of the handler is not settled yet
Pending ==
  [kind |-> "pending", code |-> "", msg |-> "", body |-> "",
   exitCode |-> 0, success |-> FALSE]

\* a response; `body` names its shape, exitCode / success are its fields
Result(body, exitCode, success) ==
  [kind |-> "result", code |-> "", msg |-> "", body |-> body,
   exitCode |-> exitCode, success |-> success]

\* new McpError(ErrorCode.<code>, `<msg>...`)
McpError(code, msg) ==
  [kind |-> "error", code |-> code, msg |-> msg, body |-> "",
   exitCode |-> 0, success |-> FALSE]

\* the `code` of a close event of a child ended by a signal
NullCode == -1

\* the negative errno a failed spawn reports as exit code
ErrnoCode == -2

\* (args.timeout as number) || 30, || 60
DefaultCommandTimeout == 30

DefaultScriptTimeout == 60

OrDefault(timeout, default) == IF timeout = 0 THEN default ELSE timeout

(* ------------------------------ handlers ------------------------------- *)

\* what the text of a response carries besides its status: the `hosts` and
\* `total` of listHosts, the record getHostInfo serialises, the `stdout`
\* and `stderr` of a command or script
NoData == [hosts |-> {}, total |-> 0, info |-> {}, stdout |-> <<>>, stderr |-> <<>>]

\* the `stdout` / `stderr` variables of one executeCommand / executeScript
\* activation; a chunk is named by the call whose child wrote it
NoOutput == [stdout |-> <<>>, stderr |-> <<>>]

NoCommand == Command(FALSE, <<>>)

\* the `command` / `script` and `encoding` fields the close listener reports
Shown(encoding, text) == [encoding |-> encoding, text |-> text]

NoText == Shown("", <<>>)

\* a call that ended inside the handler, no child launched
Answered(req, outcome) ==
  [req |-> req, proc |-> "none", child |-> "none", exitCode |-> 0,
   timer |-> "none", timeout |-> 0, kills |-> 0, signalled |-> FALSE,
   outcome |-> outcome, data |-> NoData, argv |-> NoCommand, shown |-> NoText,
   responses |-> 1, streams |-> NoOutput]

\* variant: the child is launched without the setTimeout
SpawnedUntimed(req, timeout) ==
  [req |-> req, proc |-> "spawn", child |-> "running", exitCode |-> 0,
   timer |-> "none", timeout |-> timeout, kills |-> 0, signalled |-> FALSE,
   outcome |-> Pending, data |-> NoData, argv |-> NoCommand, shown |-> NoText,
   responses |-> 0, streams |-> NoOutput]

\* spawn('ssh', [host, finalCommand]) with its listeners and its timer
Spawned(req, timeout) ==
  [req |-> req, proc |-> "spawn", child |-> "running", exitCode |-> 0,
   timer |-> "armed", timeout |-> timeout, kills |-> 0, signalled |-> FALSE,
   outcome |-> Pending, data |-> NoData, argv |-> NoCommand, shown |-> NoText,
   responses |-> 0, streams |-> NoOutput]

\* exec(scpCommand, callback): no timer
Execed(req) ==
  [req |-> req, proc |-> "exec", child |-> "running", exitCode |-> 0,
   timer |-> "none", timeout |-> 0, kills |-> 0, signalled |-> FALSE,
   outcome |-> Pending, data |-> NoData, argv |-> NoCommand, shown |-> NoText,
   responses |-> 0, streams |-> NoOutput]

\* variant: only the presence of args.host is tested
HostGiven(req) == req.hasHost

\* `this.sshHosts.get(host)` is defined
HostKnown(req) == req.hasHost /\ req.host \in DOMAIN sshHosts

HostNotFound == McpError("InvalidRequest", "Host not found in SSH config")

\* what the catch of the dispatcher makes of an error that is no McpError
ToolExecutionFailed == McpError("InternalError", "Tool execution failed")

\* Buffer.from(undefined) throws a TypeError; spawn turns an undefined
\* argument into the text "undefined" and launches the child
executeCommand(req) ==
  IF ~HostKnown(req) THEN Answered(req, HostNotFound)
  ELSE IF req.useBase64 /\ "command" \notin req.present
       THEN Answered(req, ToolExecutionFailed)
  ELSE [Spawned(req, OrDefault(req.timeout, DefaultCommandTimeout)) EXCEPT
          !.argv = IF req.useBase64 THEN Command(TRUE, Encoded(req.payload))
                   ELSE Command(FALSE, req.payload),
          !.shown = Shown(IF req.useBase64 THEN "base64" ELSE "plain", req.payload)]

executeScript(req) ==
  IF ~HostKnown(req) THEN Answered(req, HostNotFound)
  ELSE IF "script" \notin req.present THEN Answered(req, ToolExecutionFailed)
  ELSE [Spawned(req, OrDefault(req.timeout, DefaultScriptTimeout)) EXCEPT
          !.argv = Command(TRUE, Encoded(req.payload)),
          !.shown = Shown("base64", Preview(req.payload))]

\* `config.port || 22`
DefaultPort == 22

\* `x || d` for a number: 0 and NaN are falsy
OrPort(config) ==
  IF "port" \in DOMAIN config /\ config["port"] \notin {0, NaN}
  THEN config["port"] ELSE DefaultPort

\* variant: the entries are the stored records, without defaults
StoredEntry(alias, config) == ("alias" :> alias) @@ config

\* one element of the `hosts` array; JSON.stringify leaves out a `user`
\* that is undefined
HostEntry(alias, config) ==
  (IF "user" \in DOMAIN config THEN ("user" :> config["user"]) ELSE EmptyMap)
  @@ [alias |-> alias,
      hostname |-> IF "hostname" \in DOMAIN config /\ config["hostname"] # <<>>
                   THEN config["hostname"] ELSE alias,
      port |-> OrPort(config)]

listHosts(req) ==
  LET hosts == { HostEntry(alias, sshHosts[alias]) : alias \in DOMAIN sshHosts }
  IN [Answered(req, Result("hosts", 0, TRUE)) EXCEPT
        !.data = [NoData EXCEPT !.hosts = hosts, !.total = Cardinality(hosts)]]

getHostInfo(req) ==
  IF ~HostKnown(req) THEN Answered(req, HostNotFound)
  ELSE [Answered(req, Result("info", 0, TRUE)) EXCEPT
          !.data = [NoData EXCEPT !.info = {sshHosts[req.host]}]]

\* the template string of the scp command takes an undefined path as the
\* text "undefined": the copy is launched all the same
uploadFile(req) ==
  IF ~HostKnown(req) THEN Answered(req, HostNotFound)
  ELSE Execed(req)

downloadFile(req) ==
  IF ~HostKnown(req) THEN Answered(req, HostNotFound)
  ELSE Execed(req)

\* the CallToolRequestSchema handler up to its first await that suspends
Dispatch(req) ==
  IF ~req.hasArgs
  THEN Answered(req, McpError("InvalidRequest", "Missing arguments"))
  ELSE CASE req.name = "ssh_execute_command" -> executeCommand(req)
         [] req.name = "ssh_execute_script" -> executeScript(req)
         [] req.name = "ssh_list_hosts" -> listHosts(req)
         [] req.name = "ssh_get_host_info" -> getHostInfo(req)
         [] req.name = "ssh_upload_file" -> uploadFile(req)
         [] req.name = "ssh_download_file" -> downloadFile(req)
         [] OTHER -> Answered(req, McpError("MethodNotFound", "Unknown tool"))

\* variant: every resolve / reject replaces the outcome and is answered
SettleEveryTime(call, outcome) ==
  [call EXCEPT !.outcome = outcome, !.responses = @ + 1]

\* resolve / reject of a promise: only the first one counts; `responses`
\* counts the answers sent for the call
Settle(call, outcome) ==
  IF call.outcome.kind = "pending"
  THEN [call EXCEPT !.outcome = outcome, !.responses = @ + 1]
  ELSE call

\* clearTimeout(timer)
ClearTimeout(call) ==
  IF call.timer = "armed" THEN [call EXCEPT !.timer = "cleared"] ELSE call

IsScript(call) == call.req.name = "ssh_execute_script"

\* the setTimeout callback: child.kill('SIGTERM'), reject
OnTimeout(call) ==
  Settle([call EXCEPT !.timer = "fired", !.kills = @ + 1,
                      !.signalled = @ \/ call.child = "running"],
         McpError("InternalError",
                  IF IsScript(call) THEN "Script timed out" ELSE "Command timed out"))

\* variant: the close listener leaves the timer armed
OnCloseTimerLeft(call) ==
  Settle([call EXCEPT !.child = "closed"],
         Result("exec", call.exitCode, call.exitCode = 0))

\* child.on('close', code => ...): disarm the timer, resolve with the
\* result, which has the output gathered so far
OnClose(call) ==
  Settle(ClearTimeout([call EXCEPT
                         !.child = "closed",
                         !.data = IF call.outcome.kind = "pending"
                                  THEN [@ EXCEPT !.stdout = call.streams.stdout,
                                                 !.stderr = call.streams.stderr]
                                  ELSE @]),
         Result("exec", call.exitCode, call.exitCode = 0))

\* child.stdout.on('data', ...) / child.stderr.on('data', ...)
OnData(call, stream, chunk) ==
  [call EXCEPT !.streams[stream] = Append(@, chunk)]

\* child.on('error', ...): disarm the timer, reject
OnError(call) ==
  Settle(ClearTimeout([call EXCEPT !.child = "errored", !.exitCode = ErrnoCode]),
         McpError("InternalError",
                  IF IsScript(call) THEN "SSH script execution failed"
                  ELSE "SSH execution failed"))

\* variant: the callback of exec reports a failed copy as a response with
\* success = false, as the close listener of a command does
OnExecDoneAsResult(call, code) ==
  Settle([call EXCEPT !.child = "closed", !.exitCode = code],
         Result("transfer", code, code = 0))

\* the callback of exec: any error (a nonzero exit, a failed spawn) rejects
OnExecDone(call, code) ==
  Settle([call EXCEPT !.child = "closed", !.exitCode = code],
         IF code # 0
         THEN McpError("InternalError",
                       IF call.req.name = "ssh_upload_file"
                       THEN "SCP upload failed" ELSE "SCP download failed")
         ELSE Result("transfer", 0, TRUE))

(* ------------------------------- server -------------------------------- *)

\* variant: the transport is connected before loadSSHConfig has returned
CallToolWhileLoading ==
  /\ Len(calls) < MaxCalls
  /\ \E req \in Requests : calls' = Append(calls, Dispatch(req))
  /\ UNCHANGED <<loadVars, histVars>>

\* a request arrives (the transport is connected once the load is over)
CallTool ==
  /\ phase = "serving"
  /\ Len(calls) < MaxCalls
  /\ \E req \in Requests : calls' = Append(calls, Dispatch(req))
  /\ UNCHANGED <<loadVars, histVars>>

\* the requests whose command / script text varies
PayloadRequests ==
  { [Request(name, TRUE, TRUE, <<"a">>, {"command", "script"}, useBase64)
       EXCEPT !.payload = text] :
      name \in {"ssh_execute_command", "ssh_execute_script"},
      useBase64 \in BOOLEAN, text \in Payloads }

\* a first request with a command or a script arrives
CallToolPayload ==
  /\ phase = "serving"
  /\ calls = <<>>
  /\ \E req \in PayloadRequests : calls' = <<Dispatch(req)>>
  /\ UNCHANGED <<loadVars, histVars>>

\* a command with a timeout of its own, a script with the default one and
\* an upload, all for a host of the registry
DeadlineRequests ==
  { [Request("ssh_execute_command", TRUE, TRUE, <<"a">>, {"command"}, FALSE)
       EXCEPT !.timeout = 5],
    Request("ssh_execute_script", TRUE, TRUE, <<"a">>, {"script"}, FALSE),
    Request("ssh_upload_file", TRUE, TRUE, <<"a">>, {"localPath", "remotePath"}, FALSE) }

\* one of these requests arrives
CallToolDeadline ==
  /\ phase = "serving"
  /\ Len(calls) < MaxCalls
  /\ \E req \in DeadlineRequests : calls' = Append(calls, Dispatch(req))
  /\ UNCHANGED <<loadVars, histVars>>

\* the n-th request of a client that sends commands and scripts in turn,
\* for a host of the registry
InFlightRequest(n) ==
  IF n % 2 = 1
  THEN Request("ssh_execute_command", TRUE, TRUE, <<"a">>, {"command"}, FALSE)
  ELSE Request("ssh_execute_script", TRUE, TRUE, <<"a">>, {"script"}, FALSE)

\* the next of these requests arrives
CallToolInFlight ==
  /\ phase = "serving"
  /\ Len(calls) < MaxCalls
  /\ calls' = Append(calls, Dispatch(InFlightRequest(Len(calls) + 1)))
  /\ UNCHANGED <<loadVars, histVars>>

\* the ssh child ends; its output streams are still open
ChildExit(id) ==
  /\ calls[id].proc = "spawn"
  /\ calls[id].child = "running"
  /\ \E code \in {0, 1} \cup (IF calls[id].signalled THEN {NullCode} ELSE {}) :
       calls' = [calls EXCEPT ![id] = [@ EXCEPT !.child = "exited", !.exitCode = code]]
  /\ UNCHANGED <<loadVars, histVars>>

\* the 'close' event: the child is gone and its streams are closed
ChildClose(id) ==
  /\ calls[id].proc = "spawn"
  /\ calls[id].child \in {"exited", "errored"}
  /\ calls' = [calls EXCEPT ![id] = OnClose(@)]
  /\ UNCHANGED <<loadVars, histVars>>

\* the 'error' event: the child could not be spawned
ChildError(id) ==
  /\ calls[id].proc = "spawn"
  /\ calls[id].child = "running"
  /\ calls' = [calls EXCEPT ![id] = OnError(@)]
  /\ UNCHANGED <<loadVars, histVars>>

RECURSIVE ChunksUpTo(_)
\* the chunks the first n calls have received
ChunksUpTo(n) ==
  IF n = 0 THEN 0
  ELSE Len(calls[n].streams.stdout) + Len(calls[n].streams.stderr) + ChunksUpTo(n - 1)

\* the child of the call writes to one of its open output streams
ChildData(id) ==
  /\ calls[id].proc = "spawn"
  /\ calls[id].child \in {"running", "exited"}
  /\ ChunksUpTo(Len(calls)) < MaxChunks
  /\ \E stream \in {"stdout", "stderr"} :
       calls' = [calls EXCEPT ![id] = OnData(@, stream, id)]
  /\ UNCHANGED <<loadVars, histVars>>

\* variant: `child` is a field of the server that every timer callback
\* uses, so the expiry reaches the running children of the other calls too
TimerFireShared(id) ==
  /\ calls[id].timer = "armed"
  /\ calls' = [j \in 1..Len(calls) |->
                 IF j = id THEN OnTimeout(calls[j])
                 ELSE IF calls[j].child = "running"
                      THEN [calls[j] EXCEPT !.kills = @ + 1, !.signalled = TRUE]
                 ELSE calls[j]]
  /\ UNCHANGED <<loadVars, histVars>>

\* the timer of the call expires
TimerFire(id) ==
  /\ calls[id].timer = "armed"
  /\ calls' = [calls EXCEPT ![id] = OnTimeout(@)]
  /\ UNCHANGED <<loadVars, histVars>>

\* the scp command is over
ExecDone(id) ==
  /\ calls[id].proc = "exec"
  /\ calls[id].child = "running"
  /\ \E code \in {0, 1, ErrnoCode} : calls' = [calls EXCEPT ![id] = OnExecDone(@, code)]
  /\ UNCHANGED <<loadVars, histVars>>

(* --------------------------- specification ----------------------------- *)

InitLoad ==
  /\ phase = "init"
  /\ configFile \in { [exists |-> FALSE, lines |-> <<>>] }
                    \cup { [exists |-> TRUE, lines |-> d] : d \in MainDocs }
  /\ sshHosts = EmptyMap
  /\ stack = <<>>
  /\ io = NoIO
  /\ visits = EmptyMap
  /\ declCount = 0
  /\ commitCount = 0
  /\ lastDecl = EmptyMap
  /\ origin = EmptyMap
  /\ calls = <<>>

NextLoad ==
  \/ LoadSSHConfig
  \/ ParseSkipLine
  \/ ParseHostLine
  \/ ParseProperty
  \/ ParseInclude
  \/ GlobNext
  \/ GlobReturn
  \/ ParseReturn

SpecLoad == InitLoad /\ [][NextLoad]_vars

\* the documents the server is started on
ServeDocs ==
  { << Line("", <<>>), HostL(<<"a">>), Line("HostName", <<"v1">>),
       Inc(<<"..", "/", "d", "/", "b", "*">>) >> }

Init ==
  /\ phase = "init"
  /\ configFile \in { [exists |-> FALSE, lines |-> <<>>] }
                    \cup { [exists |-> TRUE, lines |-> d] : d \in ServeDocs }
  /\ sshHosts = EmptyMap
  /\ stack = <<>>
  /\ io = NoIO
  /\ visits = EmptyMap
  /\ declCount = 0
  /\ commitCount = 0
  /\ lastDecl = EmptyMap
  /\ origin = EmptyMap
  /\ calls = <<>>

Next ==
  \/ NextLoad
  \/ CallTool
  \/ \E id \in 1..Len(calls) : ChildExit(id)
  \/ \E id \in 1..Len(calls) : ChildClose(id)
  \/ \E id \in 1..Len(calls) : ChildError(id)
  \/ \E id \in 1..Len(calls) : TimerFire(id)
  \/ \E id \in 1..Len(calls) : ExecDone(id)

Spec == Init /\ [][Next]_vars

\* one call with any command or script text, up to its response
NextPayload ==
  \/ NextLoad
  \/ CallToolPayload
  \/ \E id \in 1..Len(calls) : ChildExit(id)
  \/ \E id \in 1..Len(calls) : ChildClose(id)

SpecPayload == Init /\ [][NextPayload]_vars

\* commands and scripts in flight together, with their output
NextInFlight ==
  \/ NextLoad
  \/ CallToolInFlight
  \/ \E id \in 1..Len(calls) : ChildData(id)
  \/ \E id \in 1..Len(calls) : ChildExit(id)
  \/ \E id \in 1..Len(calls) : ChildClose(id)
  \/ \E id \in 1..Len(calls) : ChildError(id)
  \/ \E id \in 1..Len(calls) : TimerFire(id)

SpecInFlight == Init /\ [][NextInFlight]_vars

\* the timer of call number id, if there is such a call, expires
Expire(id) == id \in 1..Len(calls) /\ TimerFire(id)

NextDeadline ==
  \/ NextLoad
  \/ CallToolDeadline
  \/ \E id \in 1..Len(calls) : ChildExit(id)
  \/ \E id \in 1..Len(calls) : ChildClose(id)
  \/ \E id \in 1..Len(calls) : ChildError(id)
  \/ \E id \in 1..Len(calls) : TimerFire(id)
  \/ \E id \in 1..Len(calls) : ExecDone(id)

\* the event loop runs the callback of every timer that stays armed; a
\* child, a copy, the load and the client may stop at any point
SpecDeadline ==
  /\ Init
  /\ [][NextDeadline]_vars
  /\ \A id \in 1..MaxCalls : WF_vars(Expire(id))

(* ------------------------- properties: loader -------------------------- *)

LoadDone == phase = "serving"

\* C1: once the load is over, every alias of the registry holds the block
\* whose Host line was read last among the Host lines of that alias.
C1_LaterBlockWins ==
  LoadDone => \A alias \in DOMAIN sshHosts : origin[alias] = lastDecl[alias]

\* C7: no file is handed to the parser more than once in one load (a file
\* already visited is skipped, which is what ends a cyclic include chain).
C7_EachFileParsedOnce == \A f \in DOMAIN visits : visits[f] <= 1

\* C8: an Include operand that begins with `~` is read from the home
\* directory followed by the rest of the operand, whatever the directory of
\* the including file, and an absolute operand is read as it stands.
C8_TildeIncludeFromHome ==
  io.by = "handleInclude" =>
    /\ StartsWith(io.inc, "~") =>
         Normalize(io.arg) = Normalize(homedir \o Tail(io.inc))
    /\ StartsWith(io.inc, "/") => io.arg = io.inc

\* the directory that contains a file: its path without the last segment
DirOf(file) == P(Front(Segs(file)))

\* C9: a relative Include operand (one that begins with neither `/` nor
\* `~`) is read from the directory of the file the directive stands in, at
\* every nesting depth.
C9_RelativeToIncludingFile ==
  (/\ io.by = "handleInclude"
   /\ ~StartsWith(io.inc, "/")
   /\ ~Includes(io.inc, "~") /\ ~Includes(io.from, "~"))
  => Normalize(io.arg) = Normalize(DirOf(io.from) \o <<"/">> \o io.inc)

\* a file two levels down, in another directory than the primary document,
\* has resolved its relative Include against its own directory
C9_Witness ==
  /\ io.by = "handleInclude"
  /\ io.from = P(<< <<"h">>, <<"d">>, <<"b">> >>)
  /\ io.inc = <<"a">>
  /\ io.ok
  /\ Normalize(io.arg) = P(<< <<"h">>, <<"d">>, <<"a">> >>)
  /\ Len(stack) >= 3
  /\ stack[1].file = sshConfigPath

\* the activation on top of the stack executes an Include line
AtInclude == Parsing /\ ~IsSkipped(TopLine) /\ IsInclude(TopLine)

\* the glob loop on top of the stack has a path left to try
AtGlobFile == phase = "loading" /\ stack # <<>> /\ Top.kind = "glob" /\ Top.files # {}

\* C10: a step of an Include whose file cannot be read, or whose pattern
\* cannot be expanded or matches nothing, leaves the registry as it is and
\* leaves the including document at its next line with its block in progress
\* untouched; a glob loop goes on with its other paths after one it cannot
\* read; and when the load is over every block begun was committed.
C10_FailedIncludeSkipped ==
  [][ /\ (AtInclude /\ ~io'.ok) =>
           /\ sshHosts' = sshHosts
           /\ phase' = "loading"
           /\ stack' = Resumed
      /\ (AtInclude /\ io'.ok /\ io'.op = "glob" /\ glob(io'.arg) = {}) =>
           /\ sshHosts' = sshHosts
           /\ phase' = "loading"
           /\ SubSeq(stack', 1, Len(stack)) = Resumed
           /\ Len(stack') = Len(stack) + 1
           /\ stack'[Len(stack')].kind = "glob"
      /\ (AtGlobFile /\ ~io'.ok) =>
           /\ sshHosts' = sshHosts
           /\ phase' = "loading"
           /\ \E file \in Top.files :
                stack' = [stack EXCEPT ![Len(stack)].files = @ \ {file}]
      /\ (phase = "loading" /\ stack # <<>> /\ Top.kind = "glob" /\ Top.files = {}) =>
           /\ sshHosts' = sshHosts
           /\ stack' = Front(stack)
      /\ LoadDone' => commitCount' = declCount'
    ]_vars

\* the load is over, its last Include named a missing file, and the block
\* that was in progress at that Include is in the registry
C10_Witness ==
  /\ LoadDone
  /\ io.by = "handleInclude" /\ io.op = "readFile" /\ ~io.ok
  /\ <<"a">> \in DOMAIN sshHosts
  /\ origin[<<"a">>] = declCount
  /\ declCount >= 1

\* C11: once the load is over, the block of every Host line read is in the
\* registry under the first token of the value of that line, and no key of
\* the registry is made of several tokens.
C11_FirstTokenIsAlias ==
  LoadDone =>
    /\ \A value \in DOMAIN lastDecl :
         value # <<>> => << value[1] >> \in DOMAIN sshHosts
    /\ \A alias \in DOMAIN sshHosts : Len(alias) <= 1

\* C12: at every moment of the load and after it, every key of the registry
\* is a non-empty alias and is the `host` field of the record it holds.
C12_KeysNonEmptyAndOwn ==
  \A alias \in DOMAIN sshHosts :
    /\ alias # <<>>
    /\ sshHosts[alias]["host"] = alias

RECURSIVE BlockFrom(_, _, _)
\* the record a block of a document describes: `rec` with the properties of
\* the lines from line i up to the next Host line, a later one replacing an
\* earlier one of the same name
BlockFrom(lines, i, rec) ==
  IF i > Len(lines) THEN rec
  ELSE IF IsSkipped(lines[i]) \/ IsInclude(lines[i])
       THEN BlockFrom(lines, i + 1, rec)
  ELSE IF IsHost(lines[i]) THEN rec
  ELSE IF lines[i].value = <<>> THEN BlockFrom(lines, i + 1, rec)
  ELSE BlockFrom(lines, i + 1, SetProperty(rec, lines[i]))

\* C14: whenever a block is stored, the record under its alias is made of
\* the alias and the properties of the lines of that block and of nothing
\* else, whatever was stored under the alias before, and no other entry of
\* the registry changes.
C14_OverwriteInFull ==
  [][ commitCount' # commitCount =>
        LET lines == ReadFile(Top.file)
            alias == lines[Top.start].value
        IN /\ DOMAIN sshHosts' = DOMAIN sshHosts \cup {alias}
           /\ sshHosts'[alias] = BlockFrom(lines, Top.start + 1, ("host" :> alias))
           /\ \A other \in DOMAIN sshHosts \ {alias} :
                sshHosts'[other] = sshHosts[other]
    ]_vars

\* a block `Host a` with a user was stored, then overwritten by a second
\* block `Host a` without properties: the record has the alias only
C14_Witness ==
  /\ LoadDone
  /\ configFile.exists
  /\ configFile.lines = << HostL(<<"a">>), Line("User", <<"u1">>), HostL(<<"a">>) >>
  /\ commitCount = 2
  /\ sshHosts = (<<"a">> :> ("host" :> <<"a">>))

(* ------------------------- properties: server -------------------------- *)

CallIds == 1..Len(calls)

HostTools ==
  {"ssh_execute_command", "ssh_execute_script", "ssh_get_host_info",
   "ssh_upload_file", "ssh_download_file"}

KnownTools == HostTools \cup {"ssh_list_hosts"}

\* the `required` lists of the tool schemas, host apart
RequiredFields(name) ==
  CASE name = "ssh_execute_command" -> {"command"}
    [] name = "ssh_execute_script" -> {"script"}
    [] name \in {"ssh_upload_file", "ssh_download_file"} -> {"localPath", "remotePath"}
    [] OTHER -> {}

IsInvalidRequest(o) == o.kind = "error" /\ o.code = "InvalidRequest"

IsMethodNotFound(o) == o.kind = "error" /\ o.code = "MethodNotFound"

\* the error categories the code tells apart by message only
IsTimeout(o) ==
  o.kind = "error" /\ o.msg \in {"Command timed out", "Script timed out"}

IsExecutionFailure(o) ==
  /\ o.kind = "error"
  /\ o.msg \in {"SSH execution failed", "SSH script execution failed",
                "SCP upload failed", "SCP download failed"}

\* C2: a call of a tool that names a host, with an alias that is no key of
\* the registry, has failed with InvalidRequest and has launched no child.
C2_UnknownHostRejected ==
  \A id \in CallIds :
    LET c == calls[id]
    IN (/\ c.req.name \in HostTools
        /\ c.req.hasHost
        /\ c.req.host \notin DOMAIN sshHosts)
       => /\ IsInvalidRequest(c.outcome)
          /\ c.proc = "none"
          /\ c.child = "none"

\* an upload to an alias the non-empty registry does not have was rejected
C2_Witness ==
  \E id \in CallIds :
    /\ calls[id].req.name = "ssh_upload_file"
    /\ calls[id].req.host = <<"z">>
    /\ <<"a">> \in DOMAIN sshHosts
    /\ IsInvalidRequest(calls[id].outcome)

\* C3: a call that lacks a required field of its tool, its host (if given)
\* being in the registry, has failed with InvalidRequest and has launched no
\* child.
C3_MissingFieldRejected ==
  \A id \in CallIds :
    LET c == calls[id]
    IN (/\ c.req.hasArgs
        /\ c.req.name \in KnownTools
        /\ \/ ~(RequiredFields(c.req.name) \subseteq c.req.present)
           \/ (c.req.name \in HostTools /\ ~c.req.hasHost)
        /\ c.req.hasHost => c.req.host \in DOMAIN sshHosts)
       => /\ IsInvalidRequest(c.outcome)
          /\ c.proc = "none"

\* C4: a call of an unknown tool has failed with MethodNotFound, with or
\* without an arguments object, and a call of ssh_list_hosts has succeeded.
C4_UnknownToolMethodNotFound ==
  \A id \in CallIds :
    LET c == calls[id]
    IN /\ c.req.name \notin KnownTools => IsMethodNotFound(c.outcome)
       /\ c.req.name = "ssh_list_hosts" => c.outcome.kind = "result"

\* C5: a command or script whose child closed with a nonzero exit code and
\* whose timer did not expire has the response success = false with that exit
\* code; a transfer whose copy command ended with a nonzero code has failed
\* with an execution failure and has no response.
C5_NonzeroExit ==
  \A id \in CallIds :
    LET c == calls[id]
    IN /\ (/\ c.proc = "spawn" /\ c.child = "closed"
           /\ c.exitCode > 0 /\ c.timer = "cleared")
          => c.outcome = Result("exec", c.exitCode, FALSE)
       /\ (c.proc = "exec" /\ c.child = "closed" /\ c.exitCode # 0)
          => IsExecutionFailure(c.outcome)

\* a command that exited with 1 and an upload whose scp exited with 1
C5_Witness ==
  \E i, j \in CallIds :
    /\ calls[i].req.name = "ssh_execute_command"
    /\ calls[i].child = "closed" /\ calls[i].exitCode = 1
    /\ calls[i].outcome = Result("exec", 1, FALSE)
    /\ calls[j].req.name = "ssh_upload_file"
    /\ calls[j].child = "closed" /\ calls[j].exitCode = 1
    /\ IsExecutionFailure(calls[j].outcome)

\* C6: a command or script whose timer expired has had child.kill called
\* and has failed with a timeout; one whose child closed while the timer was
\* armed, after running, has the response with the exit code of the child and
\* has not failed with a timeout.
C6_TimeoutOrExitCode ==
  \A id \in CallIds :
    LET c == calls[id]
    IN c.proc = "spawn" =>
         /\ c.timer = "fired" => (c.kills = 1 /\ IsTimeout(c.outcome))
         /\ IsTimeout(c.outcome) => c.timer = "fired"
         /\ (c.child = "closed" /\ c.timer = "cleared" /\ c.exitCode # ErrnoCode)
            => c.outcome = Result("exec", c.exitCode, c.exitCode = 0)

\* one command was ended by its timer while running, then closed; another
\* closed with exit code 1 before its timer
C6_Witness ==
  \E i, j \in CallIds :
    /\ calls[i].timer = "fired" /\ calls[i].signalled
    /\ calls[i].child = "closed" /\ IsTimeout(calls[i].outcome)
    /\ calls[j].timer = "cleared" /\ calls[j].child = "closed"
    /\ calls[j].outcome = Result("exec", 1, FALSE)

\* C13: no request is dispatched before the load, nested includes included,
\* is over, and from then on no step (a dispatch, or an exit, close, error,
\* timer or copy event of any call) changes the registry.
C13_RegistryWrittenOnlyByLoad ==
  [][ /\ LoadDone => (LoadDone' /\ sshHosts' = sshHosts)
      /\ calls' # calls => (LoadDone /\ stack = <<>> /\ sshHosts' = sshHosts)
    ]_vars

\* the registry holds its two hosts while one call has timed out and a
\* transfer has failed
C13_Witness ==
  /\ LoadDone
  /\ DOMAIN sshHosts = {<<"a">>, <<"b">>}
  /\ \E i, j \in CallIds :
       /\ calls[i].proc = "spawn" /\ IsTimeout(calls[i].outcome)
       /\ calls[j].proc = "exec" /\ IsExecutionFailure(calls[j].outcome)

\* C15: the response of ssh_list_hosts has one entry for each alias of the
\* registry and no other, and `total` is the number of aliases; an entry
\* has port 22 if the stored record has no port, and has the alias as
\* hostname if the stored record has no hostname, the stored hostname
\* otherwise; the response of ssh_get_host_info is the stored record, which
\* has a port or a hostname only if a line of its block set it.
C15_ListDefaults ==
  \A id \in CallIds :
    LET c == calls[id]
    IN /\ (c.req.name = "ssh_list_hosts" /\ c.req.hasArgs) =>
            /\ c.outcome.kind = "result"
            /\ { e["alias"] : e \in c.data.hosts } = DOMAIN sshHosts
            /\ Cardinality(c.data.hosts) = Cardinality(DOMAIN sshHosts)
            /\ c.data.total = Cardinality(DOMAIN sshHosts)
            /\ \A e \in c.data.hosts :
                 LET stored == sshHosts[e["alias"]]
                 IN /\ {"hostname", "port"} \subseteq DOMAIN e
                    /\ "port" \notin DOMAIN stored => e["port"] = 22
                    /\ "hostname" \notin DOMAIN stored => e["hostname"] = e["alias"]
                    /\ "hostname" \in DOMAIN stored => e["hostname"] = stored["hostname"]
       /\ (c.req.name = "ssh_get_host_info" /\ c.outcome.kind = "result") =>
            /\ c.data.info = { sshHosts[c.req.host] }
            /\ \A r \in c.data.info :
                 \A f \in {"hostname", "port"} :
                   f \in DOMAIN r =>
                     \E file \in DOMAIN FS :
                       \E k \in 1..Len(FS[file]) : Lower(FS[file][k].key) = f

\* host b, stored without hostname and port, was listed as b:22 and then
\* described: the record described has neither field
C15_Witness ==
  /\ Len(calls) = 2
  /\ calls[1].req.name = "ssh_list_hosts"
  /\ \E e \in calls[1].data.hosts :
       e["alias"] = <<"b">> /\ e["hostname"] = <<"b">> /\ e["port"] = 22
  /\ \E e \in calls[1].data.hosts :
       e["alias"] = <<"a">> /\ e["hostname"] = <<"v1">> /\ e["port"] = 22
  /\ calls[1].data.total = 2
  /\ calls[2].req.name = "ssh_get_host_info"
  /\ calls[2].req.host = <<"b">>
  /\ calls[2].data.info = { [host |-> <<"b">>, user |-> <<"u1">>] }

\* C16: every script is sent wrapped, a command is sent wrapped exactly when
\* useBase64 is set; the text between the quotes of a wrapped command has
\* no quote and no backslash, so the remote shell reads all of it as one
\* word, and `base64 -d` of that word is the text of the request, whatever
\* the response shows of it.
C16_EncodingLossless ==
  \A id \in CallIds :
    LET c == calls[id]
    IN c.proc = "spawn" =>
         /\ IsScript(c) => c.argv.wrapped
         /\ ~IsScript(c) => (c.argv.wrapped <=> c.req.useBase64)
         /\ ~c.argv.wrapped => c.argv.arg = c.req.payload
         /\ c.argv.wrapped =>
              /\ \A k \in 1..Len(c.argv.arg) : c.argv.arg[k] \notin {Quote, 92}
              /\ QuotedWord(c.argv.arg) = c.argv.arg
              /\ FromBase64(QuotedWord(c.argv.arg)) = c.req.payload

\* a script of four lines that begins with a quote got its response: the
\* response shows three lines and `...`, the child was given all of it
C16_Witness ==
  \E id \in CallIds :
    /\ IsScript(calls[id])
    /\ calls[id].req.payload = <<Quote, Newline, Newline, Newline>>
    /\ calls[id].outcome.kind = "result"
    /\ calls[id].shown.text = <<Quote, Newline, Newline, Newline, 46, 46, 46>>
    /\ calls[id].argv.wrapped
    /\ FromBase64(calls[id].argv.arg) = calls[id].req.payload

\* C17: the timer of a command or script is not armed any more once the
\* child has exited, and child.kill is only ever called on a child that is
\* still running.
C17_TimerDisarmedAtExit ==
  \A id \in CallIds :
    LET c == calls[id]
    IN c.proc = "spawn" =>
         /\ c.child = "exited" => c.timer # "armed"
         /\ c.kills > 0 => c.signalled

\* C18: a command or script is answered at most once; once it is settled no
\* step changes its outcome or answers it again; and the step that settles
\* it is the first of its timer expiry (a timeout), its spawn error (an
\* execution failure) and its close (the response with the exit code).
C18_SettlesOnce ==
  [][ \A id \in CallIds :
        LET c == calls[id]
            d == calls'[id]
            fired == c.timer = "armed" /\ d.timer = "fired"
            failed == c.child = "running" /\ d.child = "errored"
            closed == c.child # "closed" /\ d.child = "closed"
        IN c.proc = "spawn" =>
             /\ d.responses <= 1
             /\ c.outcome.kind # "pending" =>
                  (d.outcome = c.outcome /\ d.responses = c.responses)
             /\ c.outcome.kind = "pending" =>
                  /\ fired => IsTimeout(d.outcome)
                  /\ failed => IsExecutionFailure(d.outcome)
                  /\ closed => d.outcome = Result("exec", c.exitCode, c.exitCode = 0)
                  /\ ~(fired \/ failed \/ closed) => d.outcome.kind = "pending"
    ]_vars

\* one call timed out and was closed afterwards, another failed to spawn
\* and was closed afterwards: each keeps its first outcome, answered once
C18_Witness ==
  \E i, j \in CallIds :
    /\ calls[i].timer = "fired" /\ calls[i].child = "closed"
    /\ IsTimeout(calls[i].outcome) /\ calls[i].responses = 1
    /\ calls[j].exitCode = ErrnoCode /\ calls[j].child = "closed"
    /\ calls[j].proc = "spawn"
    /\ IsExecutionFailure(calls[j].outcome) /\ calls[j].responses = 1

\* call number id is a command or script whose child was launched
Launched(id) == id \in CallIds /\ calls[id].proc = "spawn"

\* call number id has its response or its error
Settled(id) == id \in CallIds /\ calls[id].outcome.kind # "pending"

\* C19: a command or script whose child was launched is settled in the end,
\* whether its child ever exits or not; an upload or download has no timer
\* and is pending for as long as its copy is running.
C19_DeadlineForCommandsOnly ==
  /\ \A id \in 1..MaxCalls : Launched(id) ~> Settled(id)
  /\ [](\A id \in CallIds :
          (calls[id].proc = "exec" /\ calls[id].child = "running") =>
            (calls[id].timer = "none" /\ calls[id].outcome.kind = "pending"))

\* a command whose child is still running was ended by its timer, while an
\* upload whose copy is still running is pending
C19_Witness ==
  \E i, j \in CallIds :
    /\ calls[i].proc = "spawn" /\ calls[i].child = "running"
    /\ calls[i].timeout = 5
    /\ calls[i].timer = "fired" /\ IsTimeout(calls[i].outcome)
    /\ calls[j].proc = "exec" /\ calls[j].child = "running"
    /\ calls[j].outcome.kind = "pending"

\* the chunks of a sequence were all written by the child of call id
OwnOutput(chunks, id) == \A k \in 1..Len(chunks) : chunks[k] = id

\* C20: on every step, a call keeps the one child it launched (a child that
\* is not running never runs again), child.kill is called for a call only
\* by the expiry of the timer of that call, a call is failed with a timeout
\* only by the expiry of its own timer, an event of one call leaves every
\* other call as it was, and the output a call gathers and reports was
\* written by its own child.
C20_CallsAreIndependent ==
  [][ \A id \in CallIds :
        LET c == calls[id]
            d == calls'[id]
            ownExpiry == c.timer = "armed" /\ d.timer = "fired"
        IN /\ d.proc = c.proc /\ d.req = c.req
           /\ d.child = "running" => c.child = "running"
           /\ d.kills # c.kills => (ownExpiry /\ d.kills = c.kills + 1)
           /\ d.signalled # c.signalled => ownExpiry
           /\ (IsTimeout(d.outcome) /\ ~IsTimeout(c.outcome)) => ownExpiry
           /\ d # c => \A other \in CallIds \ {id} : calls'[other] = calls[other]
           /\ OwnOutput(d.streams.stdout, id) /\ OwnOutput(d.streams.stderr, id)
           /\ OwnOutput(d.data.stdout, id) /\ OwnOutput(d.data.stderr, id)
    ]_vars

\* the first call was ended by its timer while the second, whose child
\* wrote to stderr, was neither signalled nor failed and reported that output
C20_Witness ==
  /\ Len(calls) = 2
  /\ calls[1].timer = "fired" /\ calls[1].signalled /\ IsTimeout(calls[1].outcome)
  /\ calls[1].data.stderr = <<>>
  /\ calls[2].kills = 0 /\ ~calls[2].signalled
  /\ calls[2].child = "closed"
  /\ calls[2].outcome = Result("exec", 0, TRUE)
  /\ calls[2].data.stderr = <<2>>

====
